---- MODULE Spec2Model ----
(***************************************************************************)
(* Model of synthdesk_snapshot.py: the read-only snapshot renderer.        *)
(*                                                                         *)
(* main folds the event log (_parse_event_spine) and the intent log        *)
(* (_parse_router_intents) line by line, joins the two fold results over   *)
(* the sorted union of their keys (_build_snapshot_entries) and hands the  *)
(* entries to one renderer.                                                *)
(*                                                                         *)
(* Python values are tagged records.  A str is the sequence of its code    *)
(* points, so that ordering (timestamp > current_ts, sorted(...)) and the  *)
(* tests of _is_valid_ts are computed on the characters.  A dict is a      *)
(* function from field names to values; a missing key is a key outside     *)
(* its DOMAIN.                                                             *)
(***************************************************************************)
EXTENDS Integers, Sequences, FiniteSets, TLC

(***************************************************************************)
(* Bounds of the model.                                                    *)
(***************************************************************************)
\* lines the event-log handle yields at most in one run
MaxSpineLines == 2
\* lines the intent-log handle yields at most in one run
MaxIntentLines == 2
\* characters of a timestamp before its suffix, at most
MaxTsBody == 2

(***************************************************************************)
(* Python values.                                                          *)
(***************************************************************************)
None == [t |-> "none"]
Str(s) == [t |-> "str", s |-> s]
Num(n) == [t |-> "num", n |-> n]
List(l) == [t |-> "list", l |-> l]
Dict(d) == [t |-> "dict", d |-> d]

\* the empty dict {}
EmptyMap == [k \in {} |-> None]

\* isinstance(value, str), isinstance(value, dict)
IsStr(v) == v.t = "str"
IsDict(v) == v.t = "dict"

\* values that raise TypeError when hashed (list, dict)
Unhashable(v) == v.t \in {"list", "dict"}

\* d.get(k): the value under k, None when the key is missing
Get(d, k) == IF k \in DOMAIN d THEN d[k] ELSE None

\* d[k] = v on a dict held as a function
Put(d, k, v) == (k :> v) @@ d

\* str ordering: a < b, by code point, a proper prefix sorting first
RECURSIVE StrLess(_, _)
StrLess(a, b) ==
  IF a = <<>> THEN b /= <<>>
  ELSE IF b = <<>> THEN FALSE
  ELSE IF Head(a) = Head(b) THEN StrLess(Tail(a), Tail(b))
  ELSE Head(a) < Head(b)

\* value.endswith(suffix)
EndsWith(s, suffix) ==
  /\ Len(s) >= Len(suffix)
  /\ SubSeq(s, Len(s) - Len(suffix) + 1, Len(s)) = suffix

\* the literals "T", "Z" and "+00:00" of _is_valid_ts
LitT == <<84>>
LitZ == <<90>>
LitUtcOffset == <<43, 48, 48, 58, 48, 48>>

\* the placeholder token, the str of the one character U+2014
Placeholder == Str(<<8212>>)

\* _is_valid_ts(value)
IsValidTs(value) ==
  IF ~IsStr(value) THEN FALSE
  ELSE IF ~(\E i \in 1..Len(value.s) : <<value.s[i]>> = LitT) THEN FALSE
  ELSE EndsWith(value.s, LitZ) \/ EndsWith(value.s, LitUtcOffset)

\* a changed _is_newer: the comparison is >= instead of >
IsNewerNonStrict(timestamp, current) ==
  IF current = None THEN TRUE
  ELSE LET current_ts == Get(current, "timestamp") IN
    IF ~IsStr(current_ts) THEN TRUE
    ELSE ~StrLess(timestamp.s, current_ts.s)

\* a changed _is_newer: the comparison is reversed
IsNewerReversed(timestamp, current) ==
  IF current = None THEN TRUE
  ELSE LET current_ts == Get(current, "timestamp") IN
    IF ~IsStr(current_ts) THEN TRUE
    ELSE StrLess(timestamp.s, current_ts.s)

\* a changed _is_newer: every record replaces the current best
IsNewerAlways(timestamp, current) == TRUE

\* _is_newer(timestamp, current); current is None or a retained entry
IsNewer(timestamp, current) ==
  IF current = None THEN TRUE
  ELSE LET current_ts == Get(current, "timestamp") IN
    IF ~IsStr(current_ts) THEN TRUE
    ELSE StrLess(current_ts.s, timestamp.s)


(***************************************************************************)
(* The strings of the logs used as inputs.                                 *)
(***************************************************************************)
\* "market.regime" and "market.regime_change"
MarketRegime == <<109, 97, 114, 107, 101, 116, 46, 114, 101, 103, 105, 109, 101>>
MarketRegimeChange == MarketRegime \o <<95, 99, 104, 97, 110, 103, 101>>

\* entity identifiers "AB", "ABC", "XY"
SymAB == <<65, 66>>
SymABC == <<65, 66, 67>>
SymXY == <<88, 89>>

\* "2024-01-01", "00:00:00", "01:00:00"
Date == <<50, 48, 50, 52, 45, 48, 49, 45, 48, 49>>
Midnight == <<48, 48, 58, 48, 48, 58, 48, 48>>
OneOClock == <<48, 49, 58, 48, 48, 58, 48, 48>>

\* "2024-01-01T00:00:00Z", "2024-01-01T01:00:00Z", "2024-01-01T00:00:00+00:00"
Ts0 == Str(Date \o LitT \o Midnight \o LitZ)
Ts1 == Str(Date \o LitT \o OneOClock \o LitZ)
Ts0Utc == Str(Date \o LitT \o Midnight \o LitUtcOffset)
\* "2024-01-01T01:00:00" (no UTC marker), "2024-01-01 01:00:00Z" (no "T")
TsNoZone == Str(Date \o LitT \o OneOClock)
TsNoT == Str(Date \o <<32>> \o OneOClock \o LitZ)

\* "trend", "chop", "long", "short"
Trend == Str(<<116, 114, 101, 110, 100>>)
Chop == Str(<<99, 104, 111, 112>>)
Long == Str(<<108, 111, 110, 103>>)
Short == Str(<<115, 104, 111, 114, 116>>)

(***************************************************************************)
(* Lines of a log, as the open handle and json.loads see them.             *)
(***************************************************************************)
\* a line of white space only
BlankLine == [kind |-> "blank"]
\* bytes that are not UTF-8: reading the line raises UnicodeDecodeError (the
\* handle decodes a buffer at a time, so the exception may come before
\* earlier lines of the same buffer are yielded; it leaves main either way)
UndecodableLine == [kind |-> "undecodable"]
\* text json.loads rejects with JSONDecodeError (a truncated record)
GarbageLine == [kind |-> "garbage"]
\* text json.loads parses to value
JsonLine(value) == [kind |-> "json", value |-> value]

Event(event_type, timestamp, payload) ==
  JsonLine(Dict([event_type |-> event_type, timestamp |-> timestamp,
                 payload |-> Dict(payload)]))

\* the lines an event log is drawn from
SpineLines ==
  { BlankLine, GarbageLine, UndecodableLine,
    JsonLine(List(<<>>)),
    JsonLine(Dict([event_type |-> List(<<Str(MarketRegime)>>), timestamp |-> Ts1])),
    JsonLine(Dict([timestamp |-> Ts1, payload |-> Dict([symbol |-> Str(SymABC), regime |-> Trend])])),
    Event(Str(MarketRegime), TsNoZone, [symbol |-> Str(SymABC), regime |-> Trend]),
    Event(Str(MarketRegimeChange), Ts1, [symbol |-> Num(7), from |-> Trend, to |-> Chop]),
    Event(Str(MarketRegime), Ts1, [symbol |-> Str(SymABC), regime |-> None]),
    Event(Str(MarketRegimeChange), Ts1, [symbol |-> Str(SymABC), from |-> Trend]),
    Event(Str(MarketRegime), Ts0, [symbol |-> Str(SymABC), regime |-> Trend]),
    Event(Str(MarketRegime), Ts0, [symbol |-> Str(SymABC), regime |-> Chop, confidence |-> Num(9)]),
    Event(Str(MarketRegime), Ts1, [symbol |-> Str(SymABC), regime |-> Chop]),
    Event(Str(MarketRegime), Ts0Utc, [symbol |-> Str(SymXY), regime |-> Trend, confidence |-> None]),
    Event(Str(MarketRegimeChange), Ts0, [symbol |-> Str(SymABC), from |-> Trend, to |-> Chop]),
    Event(Str(MarketRegimeChange), Ts0, [symbol |-> Str(SymABC), from |-> Chop, to |-> Trend, confidence |-> Num(9)]),
    Event(Str(MarketRegimeChange), Ts1, [symbol |-> Str(SymABC), from |-> Chop, to |-> Trend]) }

\* the lines an intent log is drawn from
IntentLines ==
  { BlankLine, GarbageLine, UndecodableLine,
    JsonLine(Num(1)),
    JsonLine(Dict([timestamp |-> TsNoT, symbol |-> Str(SymABC), payload |-> Dict([direction |-> Long])])),
    JsonLine(Dict([timestamp |-> Ts1, symbol |-> Str(SymABC), payload |-> Num(1)])),
    JsonLine(Dict([timestamp |-> Ts1, symbol |-> Num(7), payload |-> Dict([direction |-> Long])])),
    JsonLine(Dict([event_type |-> List(<<>>), timestamp |-> Ts0, symbol |-> Str(SymABC),
                   payload |-> Dict([direction |-> Long, size_pct |-> Num(5), risk_cap |-> Num(2),
                                     rationale |-> List(<<Trend>>)])])),
    JsonLine(Dict([timestamp |-> Ts0, symbol |-> Str(SymABC), payload |-> Dict(EmptyMap)])),
    JsonLine(Dict([timestamp |-> Ts1, symbol |-> Str(SymABC),
                   payload |-> Dict([direction |-> None, size_pct |-> Num(5), symbol |-> Str(SymAB)]),
                   intent |-> Dict([direction |-> Short])])),
    JsonLine(Dict([event_type |-> Str(MarketRegime), timestamp |-> Ts0Utc, payload |-> List(<<>>),
                   intent |-> Dict([symbol |-> Str(SymAB), direction |-> Short, risk_cap |-> Num(2)])])) }

(***************************************************************************)
(* _parse_event_spine: one line of the loop, and the folding of the two    *)
(* mappings into the result.                                               *)
(***************************************************************************)
Skip == [kind |-> "skip"]
Raise(exc) == [kind |-> "raise", exc |-> exc]

\* entry["confidence"] = payload.get("confidence") when the payload has the key
WithConfidence(entry, payload) ==
  IF "confidence" \in DOMAIN payload
  THEN Put(entry, "confidence", Get(payload, "confidence"))
  ELSE entry

\* What the loop body makes of one line before it looks at the current best:
\* the line is skipped (continue), raises, or is an accepted record of one of
\* the two kinds with its entity key, timestamp and the entry built from it.
SpineRecord(line) ==
  IF line.kind = "undecodable" THEN Raise("UnicodeDecodeError")
  ELSE IF line.kind = "blank" THEN Skip
  ELSE IF line.kind = "garbage" THEN Skip
  ELSE LET event == line.value IN
  IF ~IsDict(event) THEN Skip
  ELSE LET event_type == Get(event.d, "event_type") IN
  IF Unhashable(event_type) THEN Raise("TypeError")
  ELSE IF ~(IsStr(event_type) /\ event_type.s \in {MarketRegime, MarketRegimeChange}) THEN Skip
  ELSE LET timestamp == Get(event.d, "timestamp") IN
  IF ~IsValidTs(timestamp) THEN Skip
  ELSE LET payload == Get(event.d, "payload") IN
  IF ~IsDict(payload) THEN Skip
  ELSE LET symbol == Get(payload.d, "symbol") IN
  IF ~IsStr(symbol) THEN Skip
  ELSE IF event_type.s = MarketRegime THEN
    LET regime == Get(payload.d, "regime") IN
    IF ~IsStr(regime) THEN Skip
    ELSE [kind |-> "market.regime", symbol |-> symbol.s, timestamp |-> timestamp,
          entry |-> WithConfidence([timestamp |-> timestamp, regime |-> regime], payload.d)]
  ELSE
    LET from_regime == Get(payload.d, "from")
        to_regime == Get(payload.d, "to") IN
    IF ~IsStr(from_regime) \/ ~IsStr(to_regime) THEN Skip
    ELSE [kind |-> "market.regime_change", symbol |-> symbol.s, timestamp |-> timestamp,
          entry |-> WithConfidence([timestamp |-> timestamp, from |-> from_regime,
                                    to |-> to_regime], payload.d)]

\* a changed loop body: the replacing entry is merged into the replaced one,
\* which so keeps the fields the new payload does not set
SpineLineCarriesOver(latest_regime, latest_change, line) ==
  LET rec == SpineRecord(line)
      same == [raised |-> "", latest_regime |-> latest_regime, latest_change |-> latest_change]
      Merged(latest) == IF rec.symbol \in DOMAIN latest
                        THEN rec.entry @@ latest[rec.symbol] ELSE rec.entry
  IN
  IF rec.kind = "raise" THEN [same EXCEPT !.raised = rec.exc]
  ELSE IF rec.kind = "skip" THEN same
  ELSE IF rec.kind = "market.regime" THEN
    IF ~IsNewer(rec.timestamp, Get(latest_regime, rec.symbol)) THEN same
    ELSE [same EXCEPT !.latest_regime = Put(latest_regime, rec.symbol, Merged(latest_regime))]
  ELSE
    IF ~IsNewer(rec.timestamp, Get(latest_change, rec.symbol)) THEN same
    ELSE [same EXCEPT !.latest_change = Put(latest_change, rec.symbol, Merged(latest_change))]

\* a changed loop body: a regime observation that replaces the current best
\* also drops the entity's stored transition
SpineLineRegimeDropsChange(latest_regime, latest_change, line) ==
  LET rec == SpineRecord(line)
      same == [raised |-> "", latest_regime |-> latest_regime, latest_change |-> latest_change]
  IN
  IF rec.kind = "raise" THEN [same EXCEPT !.raised = rec.exc]
  ELSE IF rec.kind = "skip" THEN same
  ELSE IF rec.kind = "market.regime" THEN
    IF ~IsNewer(rec.timestamp, Get(latest_regime, rec.symbol)) THEN same
    ELSE [same EXCEPT !.latest_regime = Put(latest_regime, rec.symbol, rec.entry),
                      !.latest_change = [k \in DOMAIN latest_change \ {rec.symbol} |->
                                           latest_change[k]]]
  ELSE
    IF ~IsNewer(rec.timestamp, Get(latest_change, rec.symbol)) THEN same
    ELSE [same EXCEPT !.latest_change = Put(latest_change, rec.symbol, rec.entry)]

\* One iteration of the loop on the two mappings: raised names the exception
\* that leaves the loop, "" when none does.
SpineLine(latest_regime, latest_change, line) ==
  LET rec == SpineRecord(line)
      same == [raised |-> "", latest_regime |-> latest_regime, latest_change |-> latest_change]
  IN
  IF rec.kind = "raise" THEN [same EXCEPT !.raised = rec.exc]
  ELSE IF rec.kind = "skip" THEN same
  ELSE IF rec.kind = "market.regime" THEN
    IF ~IsNewer(rec.timestamp, Get(latest_regime, rec.symbol)) THEN same
    ELSE [same EXCEPT !.latest_regime = Put(latest_regime, rec.symbol, rec.entry)]
  ELSE
    IF ~IsNewer(rec.timestamp, Get(latest_change, rec.symbol)) THEN same
    ELSE [same EXCEPT !.latest_change = Put(latest_change, rec.symbol, rec.entry)]

\* the result mapping built after the loop
Folded(latest_regime, latest_change) ==
  [symbol \in DOMAIN latest_regime |->
     IF symbol \in DOMAIN latest_change
     THEN ("market.regime" :> latest_regime[symbol])
          @@ ("market.regime_change" :> latest_change[symbol])
     ELSE "market.regime" :> latest_regime[symbol]]

(***************************************************************************)
(* _parse_router_intents: one line of the loop.                            *)
(***************************************************************************)
\* IntentRecord with an event_type filter: only records without an
\* event_type are let through
IntentRecordFiltered(line) ==
  IF line.kind = "undecodable" THEN Raise("UnicodeDecodeError")
  ELSE IF line.kind = "blank" THEN Skip
  ELSE IF line.kind = "garbage" THEN Skip
  ELSE LET record == line.value IN
  IF ~IsDict(record) THEN Skip
  ELSE IF Get(record.d, "event_type") /= None THEN Skip
  ELSE LET timestamp == Get(record.d, "timestamp") IN
  IF ~IsValidTs(timestamp) THEN Skip
  ELSE LET payload == Get(record.d, "payload")
           intent == IF IsDict(payload) THEN payload ELSE Get(record.d, "intent") IN
  IF ~IsDict(intent) THEN Skip
  ELSE LET top == Get(record.d, "symbol")
           symbol == IF IsStr(top) THEN top ELSE Get(intent.d, "symbol") IN
  IF ~IsStr(symbol) THEN Skip
  ELSE [kind |-> "intent", symbol |-> symbol.s, timestamp |-> timestamp,
        intent |-> intent.d,
        entry |-> [direction |-> Get(intent.d, "direction"),
                   size_pct |-> Get(intent.d, "size_pct"),
                   risk_cap |-> Get(intent.d, "risk_cap"),
                   rationale |-> Get(intent.d, "rationale")]]

\* IntentRecord looking the body up under "intent" before "payload"
IntentRecordIntentFirst(line) ==
  IF line.kind = "undecodable" THEN Raise("UnicodeDecodeError")
  ELSE IF line.kind = "blank" THEN Skip
  ELSE IF line.kind = "garbage" THEN Skip
  ELSE LET record == line.value IN
  IF ~IsDict(record) THEN Skip
  ELSE LET timestamp == Get(record.d, "timestamp") IN
  IF ~IsValidTs(timestamp) THEN Skip
  ELSE LET nested == Get(record.d, "intent")
           intent == IF IsDict(nested) THEN nested ELSE Get(record.d, "payload") IN
  IF ~IsDict(intent) THEN Skip
  ELSE LET top == Get(record.d, "symbol")
           symbol == IF IsStr(top) THEN top ELSE Get(intent.d, "symbol") IN
  IF ~IsStr(symbol) THEN Skip
  ELSE [kind |-> "intent", symbol |-> symbol.s, timestamp |-> timestamp,
        intent |-> intent.d,
        entry |-> [direction |-> Get(intent.d, "direction"),
                   size_pct |-> Get(intent.d, "size_pct"),
                   risk_cap |-> Get(intent.d, "risk_cap"),
                   rationale |-> Get(intent.d, "rationale")]]

\* What the loop body makes of one line before it looks at the stored
\* timestamp: skipped, raising, or an accepted record with its entity key,
\* timestamp, the chosen body (intent) and the entry built from it.
IntentRecord(line) ==
  IF line.kind = "undecodable" THEN Raise("UnicodeDecodeError")
  ELSE IF line.kind = "blank" THEN Skip
  ELSE IF line.kind = "garbage" THEN Skip
  ELSE LET record == line.value IN
  IF ~IsDict(record) THEN Skip
  ELSE LET timestamp == Get(record.d, "timestamp") IN
  IF ~IsValidTs(timestamp) THEN Skip
  ELSE LET payload == Get(record.d, "payload")
           intent == IF IsDict(payload) THEN payload ELSE Get(record.d, "intent") IN
  IF ~IsDict(intent) THEN Skip
  ELSE LET top == Get(record.d, "symbol")
           symbol == IF IsStr(top) THEN top ELSE Get(intent.d, "symbol") IN
  IF ~IsStr(symbol) THEN Skip
  ELSE [kind |-> "intent", symbol |-> symbol.s, timestamp |-> timestamp,
        intent |-> intent.d,
        entry |-> [direction |-> Get(intent.d, "direction"),
                   size_pct |-> Get(intent.d, "size_pct"),
                   risk_cap |-> Get(intent.d, "risk_cap"),
                   rationale |-> Get(intent.d, "rationale")]]

\* a changed loop body: the timestamp is stored with an entity's first record
\* only, later records replace the body and leave the timestamp
IntentLineKeepsFirstTs(latest_intent, latest_ts, line) ==
  LET rec == IntentRecord(line)
      same == [raised |-> "", latest_intent |-> latest_intent, latest_ts |-> latest_ts]
  IN
  IF rec.kind = "raise" THEN [same EXCEPT !.raised = rec.exc]
  ELSE IF rec.kind = "skip" THEN same
  ELSE LET current_ts == Get(latest_ts, rec.symbol) IN
    IF IsStr(current_ts) /\ ~StrLess(current_ts.s, rec.timestamp.s) THEN same
    ELSE [same EXCEPT !.latest_ts = IF IsStr(current_ts) THEN latest_ts
                                    ELSE Put(latest_ts, rec.symbol, rec.timestamp),
                      !.latest_intent = Put(latest_intent, rec.symbol, rec.entry)]

\* One iteration of the loop on the two mappings.  timestamp <= current_ts is
\* "current_ts < timestamp is false".
IntentLine(latest_intent, latest_ts, line) ==
  LET rec == IntentRecord(line)
      same == [raised |-> "", latest_intent |-> latest_intent, latest_ts |-> latest_ts]
  IN
  IF rec.kind = "raise" THEN [same EXCEPT !.raised = rec.exc]
  ELSE IF rec.kind = "skip" THEN same
  ELSE LET current_ts == Get(latest_ts, rec.symbol) IN
    IF IsStr(current_ts) /\ ~StrLess(current_ts.s, rec.timestamp.s) THEN same
    ELSE [same EXCEPT !.latest_ts = Put(latest_ts, rec.symbol, rec.timestamp),
                      !.latest_intent = Put(latest_intent, rec.symbol, rec.entry)]

(***************************************************************************)
(* The two folds on a whole log that is read without OSError.              *)
(***************************************************************************)
Return(value) == [kind |-> "return", value |-> value]

\* the loop of _parse_event_spine from the mappings of st over lines
RECURSIVE SpineLoop(_, _)
SpineLoop(st, lines) ==
  IF lines = <<>> \/ st.raised /= "" THEN st
  ELSE SpineLoop(SpineLine(st.latest_regime, st.latest_change, Head(lines)), Tail(lines))

\* _parse_event_spine(path) for the lines of path: the mapping returned or
\* the exception raised
ParseEventSpine(lines) ==
  LET st == SpineLoop([raised |-> "", latest_regime |-> EmptyMap,
                       latest_change |-> EmptyMap], lines)
  IN IF st.raised /= "" THEN Raise(st.raised)
     ELSE Return(Folded(st.latest_regime, st.latest_change))

\* the loop of _parse_router_intents from the mappings of st over lines
RECURSIVE IntentLoop(_, _)
IntentLoop(st, lines) ==
  IF lines = <<>> \/ st.raised /= "" THEN st
  ELSE IntentLoop(IntentLine(st.latest_intent, st.latest_ts, Head(lines)), Tail(lines))

\* _parse_router_intents(path) for the lines of path
ParseRouterIntents(lines) ==
  LET st == IntentLoop([raised |-> "", latest_intent |-> EmptyMap,
                        latest_ts |-> EmptyMap], lines)
  IN IF st.raised /= "" THEN Raise(st.raised) ELSE Return(st.latest_intent)

(***************************************************************************)
(* _build_snapshot_entries and the sorted union of main.                   *)
(***************************************************************************)
\* isinstance(entry, dict) for what .get returned: an entry or None
IsEntry(entry) == entry /= None

\* d.get(k, default)
GetOr(d, k, default) == IF k \in DOMAIN d THEN d[k] ELSE default

\* the literals " -> " and " @ " of the change summary
LitArrow == <<32, 45, 62, 32>>
LitAt == <<32, 64, 32>>

\* a changed entry: the fields without observation are None, not the placeholder
SnapshotEntryNoneForMissing(symbol, spine_summary, intent_summary) ==
  LET symbol_entry == GetOr(spine_summary, symbol, EmptyMap)
      regime_entry == Get(symbol_entry, "market.regime")
      change_entry == Get(symbol_entry, "market.regime_change")
      intent_entry == Get(intent_summary, symbol)
  IN [symbol |-> Str(symbol),
      regime |-> IF IsEntry(regime_entry) THEN Get(regime_entry, "regime") ELSE None,
      regime_ts |-> IF IsEntry(regime_entry) THEN Get(regime_entry, "timestamp") ELSE None,
      change_value |->
        IF IsEntry(change_entry)
        THEN Str(Get(change_entry, "from").s \o LitArrow \o Get(change_entry, "to").s
                 \o LitAt \o Get(change_entry, "timestamp").s)
        ELSE None,
      direction |-> IF IsEntry(intent_entry) THEN Get(intent_entry, "direction") ELSE None,
      size_pct |-> IF IsEntry(intent_entry) THEN Get(intent_entry, "size_pct") ELSE None,
      risk_cap |-> IF IsEntry(intent_entry) THEN Get(intent_entry, "risk_cap") ELSE None,
      rationale |-> IF IsEntry(intent_entry) THEN Get(intent_entry, "rationale") ELSE None]

\* a changed entry: the change summary leaves the timestamp out
SnapshotEntryChangeWithoutTs(symbol, spine_summary, intent_summary) ==
  LET symbol_entry == GetOr(spine_summary, symbol, EmptyMap)
      regime_entry == Get(symbol_entry, "market.regime")
      change_entry == Get(symbol_entry, "market.regime_change")
      intent_entry == Get(intent_summary, symbol)
      regime == IF IsEntry(regime_entry) THEN Get(regime_entry, "regime") ELSE Placeholder
      regime_ts == IF IsEntry(regime_entry) THEN Get(regime_entry, "timestamp") ELSE Placeholder
      change_from == IF IsEntry(change_entry) THEN Get(change_entry, "from") ELSE None
      change_to == IF IsEntry(change_entry) THEN Get(change_entry, "to") ELSE None
      change_ts == IF IsEntry(change_entry) THEN Get(change_entry, "timestamp") ELSE Placeholder
      change_value ==
        IF change_from /= None /\ change_to /= None
        THEN Str(change_from.s \o LitArrow \o change_to.s)
        ELSE Placeholder
  IN [symbol |-> Str(symbol),
      regime |-> regime,
      regime_ts |-> regime_ts,
      change_value |-> change_value,
      direction |-> IF IsEntry(intent_entry) THEN GetOr(intent_entry, "direction", Placeholder)
                    ELSE Placeholder,
      size_pct |-> IF IsEntry(intent_entry) THEN GetOr(intent_entry, "size_pct", Placeholder)
                   ELSE Placeholder,
      risk_cap |-> IF IsEntry(intent_entry) THEN GetOr(intent_entry, "risk_cap", Placeholder)
                   ELSE Placeholder,
      rationale |-> IF IsEntry(intent_entry) THEN Get(intent_entry, "rationale") ELSE None]

\* the entry of one symbol: the body of the loop of _build_snapshot_entries
SnapshotEntry(symbol, spine_summary, intent_summary) ==
  LET symbol_entry == GetOr(spine_summary, symbol, EmptyMap)
      regime_entry == Get(symbol_entry, "market.regime")
      change_entry == Get(symbol_entry, "market.regime_change")
      intent_entry == Get(intent_summary, symbol)
      regime == IF IsEntry(regime_entry) THEN Get(regime_entry, "regime") ELSE Placeholder
      regime_ts == IF IsEntry(regime_entry) THEN Get(regime_entry, "timestamp") ELSE Placeholder
      change_from == IF IsEntry(change_entry) THEN Get(change_entry, "from") ELSE None
      change_to == IF IsEntry(change_entry) THEN Get(change_entry, "to") ELSE None
      change_ts == IF IsEntry(change_entry) THEN Get(change_entry, "timestamp") ELSE Placeholder
      change_value ==
        IF change_from /= None /\ change_to /= None
        THEN Str(change_from.s \o LitArrow \o change_to.s \o LitAt \o change_ts.s)
        ELSE Placeholder
  IN [symbol |-> Str(symbol),
      regime |-> regime,
      regime_ts |-> regime_ts,
      change_value |-> change_value,
      direction |-> IF IsEntry(intent_entry) THEN GetOr(intent_entry, "direction", Placeholder)
                    ELSE Placeholder,
      size_pct |-> IF IsEntry(intent_entry) THEN GetOr(intent_entry, "size_pct", Placeholder)
                   ELSE Placeholder,
      risk_cap |-> IF IsEntry(intent_entry) THEN GetOr(intent_entry, "risk_cap", Placeholder)
                   ELSE Placeholder,
      rationale |-> IF IsEntry(intent_entry) THEN Get(intent_entry, "rationale") ELSE None]

\* _build_snapshot_entries(symbols, spine_summary, intent_summary)
BuildSnapshotEntries(symbols, spine_summary, intent_summary) ==
  [i \in 1..Len(symbols) |-> SnapshotEntry(symbols[i], spine_summary, intent_summary)]

\* sorted(keys): the strings of keys in ascending order
RECURSIVE Sorted(_)
Sorted(keys) ==
  IF keys = {} THEN <<>>
  ELSE LET least == CHOOSE x \in keys : \A y \in keys \ {x} : StrLess(x, y)
       IN <<least>> \o Sorted(keys \ {least})

\* a changed union: only the keys of the regime-fold result
SnapshotSymbolsSpineOnly(spine_summary, intent_summary) ==
  Sorted(DOMAIN spine_summary)

\* sorted(set(spine_summary.keys()) | set(intent_summary.keys()))
SnapshotSymbols(spine_summary, intent_summary) ==
  Sorted(DOMAIN spine_summary \cup DOMAIN intent_summary)

(***************************************************************************)
(* The run of main.                                                        *)
(*                                                                         *)
(* pc is the position in main: "start" (line 280), "spine" (the loop of    *)
(* _parse_event_spine), "spine_folded" (line 98, the result built),        *)
(* "spine_except" (line 89, OSError caught), "intent_check" (line 287),    *)
(* "intent" (the loop of _parse_router_intents), "intent_except" (line     *)
(* 138), "assemble" (line 289), "render" (line 292), "done" (main          *)
(* returned) and "crashed" (an exception left main).                       *)
(***************************************************************************)
VARIABLES
  pc,
  env,                      \* what main has learnt of sys.argv and the file system
  raised,                   \* the exception that left main, "" when none
  spine_lines,              \* the lines the event-log handle has yielded
  latest_regime_by_symbol,
  latest_change_by_symbol,
  folded,
  spine_summary,
  intent_lines,             \* the lines the intent-log handle has yielded
  latest_intent_by_symbol,
  latest_ts_by_symbol,
  intent_summary,
  symbols,
  entries,
  output_mode,              \* sys.argv[3], "" when there is none
  rendered,                 \* the renderer that printed, "" when none did
  is_newer_call             \* a call of _is_newer on its own: arguments and result

vars == <<pc, env, raised, spine_lines, latest_regime_by_symbol,
          latest_change_by_symbol, folded, spine_summary, intent_lines,
          latest_intent_by_symbol, latest_ts_by_symbol, intent_summary,
          symbols, entries, output_mode, rendered, is_newer_call>>

spineLocals == <<spine_lines, latest_regime_by_symbol, latest_change_by_symbol, folded>>
intentLocals == <<intent_lines, latest_intent_by_symbol, latest_ts_by_symbol>>
mainLocals == <<spine_summary, intent_summary, symbols, entries, output_mode, rendered>>

\* no call of _is_newer on its own is under way
NoCall == [timestamp |-> None, current |-> None, result |-> ""]

\* the values of len(sys.argv) and of sys.argv[3]
ArgvLens == 1..4
OutputModes == {"markdown", "html", "json"}

Init ==
  /\ pc = "start"
  /\ env = {}
  /\ raised = ""
  /\ spine_lines = <<>>
  /\ latest_regime_by_symbol = EmptyMap
  /\ latest_change_by_symbol = EmptyMap
  /\ folded = EmptyMap
  /\ spine_summary = EmptyMap
  /\ intent_lines = <<>>
  /\ latest_intent_by_symbol = EmptyMap
  /\ latest_ts_by_symbol = EmptyMap
  /\ intent_summary = EmptyMap
  /\ symbols = <<>>
  /\ entries = <<>>
  /\ output_mode = ""
  /\ rendered = ""
  /\ is_newer_call = NoCall

\* main, lines 280-285: the argument count and event_spine_path.exists()
MainStart ==
  /\ pc = "start"
  /\ \E argv_len \in ArgvLens, exists \in BOOLEAN :
       IF argv_len < 3
       THEN pc' = "done" /\ env' = {"argv_short"}
       ELSE /\ env' = {IF exists THEN "spine_exists" ELSE "spine_missing"}
            /\ pc' = IF exists THEN "spine" ELSE "done"
  /\ UNCHANGED <<is_newer_call, raised, spineLocals, intentLocals, mainLocals>>

\* _parse_event_spine, lines 45-88: the handle yields one more line
SpineReadLine ==
  /\ pc = "spine"
  /\ Len(spine_lines) < MaxSpineLines
  /\ \E line \in SpineLines :
       LET r == SpineLine(latest_regime_by_symbol, latest_change_by_symbol, line) IN
       /\ spine_lines' = Append(spine_lines, line)
       /\ latest_regime_by_symbol' = r.latest_regime
       /\ latest_change_by_symbol' = r.latest_change
       /\ raised' = r.raised
       /\ pc' = IF r.raised = "" THEN "spine" ELSE "crashed"
  /\ UNCHANGED <<is_newer_call, env, folded, intentLocals, mainLocals>>

\* lines 44-45, 89: open or a read raises OSError
SpineOSError ==
  /\ pc = "spine"
  /\ env' = env \cup {"spine_oserror"}
  /\ pc' = "spine_except"
  /\ UNCHANGED <<is_newer_call, raised, spineLocals, intentLocals, mainLocals>>

\* line 90: return {}
SpineExcept ==
  /\ pc = "spine_except"
  /\ spine_summary' = EmptyMap
  /\ spine_lines' = <<>>
  /\ latest_regime_by_symbol' = EmptyMap
  /\ latest_change_by_symbol' = EmptyMap
  /\ folded' = EmptyMap
  /\ pc' = "intent_check"
  /\ UNCHANGED <<is_newer_call, env, raised, intentLocals, intent_summary, symbols, entries,
                 output_mode, rendered>>

\* lines 91-97: the handle is exhausted, folded is built
SpineEOF ==
  /\ pc = "spine"
  /\ folded' = Folded(latest_regime_by_symbol, latest_change_by_symbol)
  /\ pc' = "spine_folded"
  /\ UNCHANGED <<is_newer_call, env, raised, spine_lines, latest_regime_by_symbol,
                 latest_change_by_symbol, intentLocals, mainLocals>>

\* line 98: return folded
SpineReturn ==
  /\ pc = "spine_folded"
  /\ spine_summary' = folded
  /\ spine_lines' = <<>>
  /\ latest_regime_by_symbol' = EmptyMap
  /\ latest_change_by_symbol' = EmptyMap
  /\ folded' = EmptyMap
  /\ pc' = "intent_check"
  /\ UNCHANGED <<is_newer_call, env, raised, intentLocals, intent_summary, symbols, entries,
                 output_mode, rendered>>

\* main, line 287: router_intents_path.exists()
IntentCheck ==
  /\ pc = "intent_check"
  /\ \E exists \in BOOLEAN :
       /\ env' = env \cup {IF exists THEN "intent_exists" ELSE "intent_missing"}
       /\ pc' = IF exists THEN "intent" ELSE "assemble"
  /\ intent_summary' = EmptyMap
  /\ UNCHANGED <<is_newer_call, raised, spineLocals, intentLocals, spine_summary, symbols,
                 entries, output_mode, rendered>>

\* _parse_router_intents, lines 106-137: the handle yields one more line
IntentReadLine ==
  /\ pc = "intent"
  /\ Len(intent_lines) < MaxIntentLines
  /\ \E line \in IntentLines :
       LET r == IntentLine(latest_intent_by_symbol, latest_ts_by_symbol, line) IN
       /\ intent_lines' = Append(intent_lines, line)
       /\ latest_intent_by_symbol' = r.latest_intent
       /\ latest_ts_by_symbol' = r.latest_ts
       /\ raised' = r.raised
       /\ pc' = IF r.raised = "" THEN "intent" ELSE "crashed"
  /\ UNCHANGED <<is_newer_call, env, spineLocals, mainLocals>>

\* lines 105-106, 138: open or a read raises OSError
IntentOSError ==
  /\ pc = "intent"
  /\ env' = env \cup {"intent_oserror"}
  /\ pc' = "intent_except"
  /\ UNCHANGED <<is_newer_call, raised, spineLocals, intentLocals, mainLocals>>

\* line 139: return {}
IntentExcept ==
  /\ pc = "intent_except"
  /\ intent_summary' = EmptyMap
  /\ intent_lines' = <<>>
  /\ latest_intent_by_symbol' = EmptyMap
  /\ latest_ts_by_symbol' = EmptyMap
  /\ pc' = "assemble"
  /\ UNCHANGED <<is_newer_call, env, raised, spineLocals, spine_summary, symbols, entries,
                 output_mode, rendered>>

\* line 140: the handle is exhausted, return latest_intent_by_symbol
IntentEOF ==
  /\ pc = "intent"
  /\ intent_summary' = latest_intent_by_symbol
  /\ intent_lines' = <<>>
  /\ latest_intent_by_symbol' = EmptyMap
  /\ latest_ts_by_symbol' = EmptyMap
  /\ pc' = "assemble"
  /\ UNCHANGED <<is_newer_call, env, raised, spineLocals, spine_summary, symbols, entries,
                 output_mode, rendered>>

\* main, lines 289-291: the sorted union of the keys and the entries
Assemble ==
  /\ pc = "assemble"
  /\ symbols' = SnapshotSymbols(spine_summary, intent_summary)
  /\ entries' = BuildSnapshotEntries(SnapshotSymbols(spine_summary, intent_summary),
                                     spine_summary, intent_summary)
  /\ pc' = "render"
  /\ UNCHANGED <<is_newer_call, env, raised, spineLocals, intentLocals, spine_summary,
                 intent_summary, output_mode, rendered>>

\* main, lines 292-300: the renderer chosen by sys.argv[3]
Render ==
  /\ pc = "render"
  /\ \E mode \in OutputModes \cup {""} :
       /\ output_mode' = mode
       /\ rendered' = IF mode = "markdown" THEN "markdown"
                      ELSE IF mode = "html" THEN "html"
                      ELSE "terminal"
  /\ pc' = "done"
  /\ UNCHANGED <<is_newer_call, env, raised, spineLocals, intentLocals, spine_summary,
                 intent_summary, symbols, entries>>

Next ==
  \/ MainStart
  \/ SpineReadLine
  \/ SpineOSError
  \/ SpineExcept
  \/ SpineEOF
  \/ SpineReturn
  \/ IntentCheck
  \/ IntentReadLine
  \/ IntentOSError
  \/ IntentExcept
  \/ IntentEOF
  \/ Assemble
  \/ Render

Spec == Init /\ [][Next]_vars

(***************************************************************************)
(* _is_newer called on its own: the arguments are drawn from the valid     *)
(* timestamps its callers pass (lines 63 and 115 let no other through) and *)
(* from the values a mapping's .get(symbol) can give.                      *)
(***************************************************************************)
\* code points of "0", "1" and "T", and the suffixes _is_valid_ts accepts
TsAlphabet == {48, 49, 84}
TsSuffixes == {LitZ, LitUtcOffset}

\* every string of 1..MaxTsBody characters followed by a suffix
TsCandidates ==
  {b \o z : b \in UNION {[1..n -> TsAlphabet] : n \in 1..MaxTsBody}, z \in TsSuffixes}

ValidTimestamps == {Str(c) : c \in {c \in TsCandidates : IsValidTs(Str(c))}}

\* latest.get(symbol): None, or an entry, whose "timestamp" is a valid
\* timestamp when the folds built it
Currents ==
  {None, [regime |-> Trend], [timestamp |-> None, regime |-> Trend]}
    \cup {[timestamp |-> t, regime |-> Trend] : t \in ValidTimestamps}

InitIsNewer ==
  /\ pc = "start"
  /\ env = {}
  /\ raised = ""
  /\ spine_lines = <<>>
  /\ latest_regime_by_symbol = EmptyMap
  /\ latest_change_by_symbol = EmptyMap
  /\ folded = EmptyMap
  /\ spine_summary = EmptyMap
  /\ intent_lines = <<>>
  /\ latest_intent_by_symbol = EmptyMap
  /\ latest_ts_by_symbol = EmptyMap
  /\ intent_summary = EmptyMap
  /\ symbols = <<>>
  /\ entries = <<>>
  /\ output_mode = ""
  /\ rendered = ""
  /\ is_newer_call \in [timestamp : ValidTimestamps, current : Currents, result : {"called"}]

\* the call returns
IsNewerReturn ==
  /\ is_newer_call.result = "called"
  /\ is_newer_call' =
       [is_newer_call EXCEPT !.result =
          IF IsNewer(is_newer_call.timestamp, is_newer_call.current)
          THEN "True" ELSE "False"]
  /\ UNCHANGED <<pc, env, raised, spineLocals, intentLocals, mainLocals>>

NextIsNewer == IsNewerReturn

SpecIsNewer == InitIsNewer /\ [][NextIsNewer]_vars

(***************************************************************************)
(* The records a fold has accepted so far, read off the lines its handle   *)
(* has yielded.                                                            *)
(***************************************************************************)
EntitySymbols == {SymAB, SymABC, SymXY}
SpineKinds == {"market.regime", "market.regime_change"}

\* the mapping of the regime fold that holds the observations of kind
SpineLatest(kind) ==
  IF kind = "market.regime" THEN latest_regime_by_symbol ELSE latest_change_by_symbol

\* positions of the accepted records of kind and symbol in the event log
SpineIdx(kind, symbol) ==
  {i \in 1..Len(spine_lines) :
     LET r == SpineRecord(spine_lines[i]) IN r.kind = kind /\ r.symbol = symbol}

\* positions of the accepted records of symbol in the intent log
IntentIdx(symbol) ==
  {i \in 1..Len(intent_lines) :
     LET r == IntentRecord(intent_lines[i]) IN r.kind = "intent" /\ r.symbol = symbol}

SpineTs(i) == SpineRecord(spine_lines[i]).timestamp.s
IntentTs(i) == IntentRecord(intent_lines[i]).timestamp.s

\* i and j tie at the greatest timestamp of idx, j being the last record of the tie
TopTie(idx, ts(_), i, j) ==
  /\ i < j
  /\ ts(i) = ts(j)
  /\ \A k \in idx : ~StrLess(ts(j), ts(k))
  /\ \A k \in idx : k > j => ts(k) /= ts(j)

InSpineFold == pc \in {"spine", "spine_folded", "spine_except"}
InIntentFold == pc \in {"intent", "intent_except"}

(***************************************************************************)
(* C1                                                                      *)
(***************************************************************************)
\* C1 as stated: of two accepted records of the same entity and kind that tie
\* at the greatest timestamp, the fold retains the one later in the file.
C1_LaterOfTieRetained ==
  /\ InSpineFold =>
       \A kind \in SpineKinds, s \in EntitySymbols :
         \A i, j \in SpineIdx(kind, s) :
           TopTie(SpineIdx(kind, s), SpineTs, i, j)
             => SpineLatest(kind)[s] = SpineRecord(spine_lines[j]).entry
  /\ InIntentFold =>
       \A s \in EntitySymbols :
         \A i, j \in IntentIdx(s) :
           TopTie(IntentIdx(s), IntentTs, i, j)
             => latest_intent_by_symbol[s] = IntentRecord(intent_lines[j]).entry

\* the first record in file order among those of idx carrying timestamp t
FirstWithTs(idx, ts(_), t) ==
  CHOOSE i \in idx : ts(i) = t /\ \A k \in idx : ts(k) = t => i <= k

\* C1 amended: of accepted records of the same entity and kind with equal
\* timestamps the later one never replaces the earlier one: every retained
\* observation is the earliest record in file order that carries the retained
\* timestamp, in both mappings of the regime fold, in its result and in the
\* intent fold.
C1_EarliestOfTieRetained ==
  /\ InSpineFold =>
       \A kind \in SpineKinds :
         \A s \in DOMAIN SpineLatest(kind) :
           LET first == FirstWithTs(SpineIdx(kind, s), SpineTs, SpineLatest(kind)[s].timestamp.s)
           IN SpineLatest(kind)[s] = SpineRecord(spine_lines[first]).entry
  /\ pc = "spine_folded" =>
       \A s \in DOMAIN folded :
         \A kind \in DOMAIN folded[s] :
           LET first == FirstWithTs(SpineIdx(kind, s), SpineTs, folded[s][kind].timestamp.s)
           IN folded[s][kind] = SpineRecord(spine_lines[first]).entry
  /\ InIntentFold =>
       \A s \in DOMAIN latest_intent_by_symbol :
         LET first == FirstWithTs(IntentIdx(s), IntentTs, latest_ts_by_symbol[s].s)
         IN latest_intent_by_symbol[s] = IntentRecord(intent_lines[first]).entry

\* C1 witness: the regime fold has ended on a log with a tie at the greatest
\* timestamp of an entity, the two records differ, and its result holds the
\* earlier one.
C1_Witness_SpineTie ==
  /\ pc = "spine_folded"
  /\ \E kind \in SpineKinds, s \in DOMAIN folded :
       \E i, j \in SpineIdx(kind, s) :
         /\ TopTie(SpineIdx(kind, s), SpineTs, i, j)
         /\ SpineRecord(spine_lines[i]).entry /= SpineRecord(spine_lines[j]).entry
         /\ kind \in DOMAIN folded[s]
         /\ folded[s][kind] = SpineRecord(spine_lines[i]).entry

(***************************************************************************)
(* C2                                                                      *)
(***************************************************************************)
\* the lines in the order given by the permutation p of their positions
Permute(lines, p) == [i \in 1..Len(lines) |-> lines[p[i]]]

\* no two accepted records of one entity and kind share a timestamp
NoSpineTie ==
  \A kind \in SpineKinds, s \in EntitySymbols :
    \A i, j \in SpineIdx(kind, s) : i /= j => SpineTs(i) /= SpineTs(j)
NoIntentTie ==
  \A s \in EntitySymbols :
    \A i, j \in IntentIdx(s) : i /= j => IntentTs(i) /= IntentTs(j)

\* C2: when no two accepted records of one entity and kind share a timestamp,
\* the regime fold returns the same mapping for every permutation of the lines
\* of the event log, and the intent fold the same mapping for every
\* permutation of the lines of the intent log.
C2_OrderInsensitive ==
  /\ (pc = "spine_folded" /\ NoSpineTie) =>
       \A p \in Permutations(1..Len(spine_lines)) :
         ParseEventSpine(Permute(spine_lines, p)) = Return(folded)
  /\ (pc = "intent" /\ NoIntentTie) =>
       \A p \in Permutations(1..Len(intent_lines)) :
         ParseRouterIntents(Permute(intent_lines, p)) = Return(latest_intent_by_symbol)

\* C2 witness: the regime fold has ended on a log without ties that holds two
\* accepted records of one entity and kind, the newer one first, and the
\* result holds the newer one.
C2_Witness_NewerFirst ==
  /\ pc = "spine_folded"
  /\ NoSpineTie
  /\ \E kind \in SpineKinds, s \in DOMAIN folded :
       \E i, j \in SpineIdx(kind, s) :
         /\ i < j
         /\ StrLess(SpineTs(j), SpineTs(i))
         /\ kind \in DOMAIN folded[s]
         /\ folded[s][kind] = SpineRecord(spine_lines[i]).entry

(***************************************************************************)
(* C3                                                                      *)
(***************************************************************************)
\* t is the greatest of the timestamps of the records of idx
IsMaxTs(idx, ts(_), t) ==
  /\ \E i \in idx : ts(i) = t
  /\ \A i \in idx : ~StrLess(t, ts(i))

\* every mapping holds exactly the entities with an accepted record of its
\* kind among the lines processed, each with the greatest timestamp of these
C3_RetainedIsMax ==
  /\ \A kind \in SpineKinds :
       /\ DOMAIN SpineLatest(kind) = {s \in EntitySymbols : SpineIdx(kind, s) /= {}}
       /\ \A s \in DOMAIN SpineLatest(kind) :
            IsMaxTs(SpineIdx(kind, s), SpineTs, SpineLatest(kind)[s].timestamp.s)
  /\ DOMAIN latest_intent_by_symbol = {s \in EntitySymbols : IntentIdx(s) /= {}}
  /\ DOMAIN latest_ts_by_symbol = DOMAIN latest_intent_by_symbol
  /\ \A s \in DOMAIN latest_ts_by_symbol :
       IsMaxTs(IntentIdx(s), IntentTs, latest_ts_by_symbol[s].s)

\* a step inside a fold keeps every retained entity and does not lower its
\* retained timestamp
C3_NeverDecreases ==
  /\ (InSpineFold /\ InSpineFold') =>
       \A kind \in SpineKinds :
         \A s \in DOMAIN SpineLatest(kind) :
           /\ s \in DOMAIN SpineLatest(kind)'
           /\ ~StrLess(SpineLatest(kind)'[s].timestamp.s, SpineLatest(kind)[s].timestamp.s)
  /\ (InIntentFold /\ InIntentFold') =>
       \A s \in DOMAIN latest_ts_by_symbol :
         /\ s \in DOMAIN latest_ts_by_symbol'
         /\ ~StrLess(latest_ts_by_symbol'[s].s, latest_ts_by_symbol[s].s)

\* C3: after every processed line each entity has at most one retained regime,
\* regime-change and intent observation, its timestamp is the lexicographic
\* maximum of the timestamps of the accepted records of that entity and kind
\* processed so far, and the retained timestamp never decreases during a fold.
C3_LatestPerEntity == []C3_RetainedIsMax /\ [][C3_NeverDecreases]_vars

\* C3 witness: the intent fold has processed two accepted records of one
\* entity, the newer one first, and holds the newer timestamp.
C3_Witness_OlderLast ==
  /\ pc = "intent"
  /\ \E s \in DOMAIN latest_ts_by_symbol :
       \E i, j \in IntentIdx(s) :
         /\ i < j
         /\ StrLess(IntentTs(j), IntentTs(i))
         /\ latest_ts_by_symbol[s].s = IntentTs(i)
         /\ latest_intent_by_symbol[s] = IntentRecord(intent_lines[i]).entry

(***************************************************************************)
(* C4                                                                      *)
(***************************************************************************)
\* the entries main builds from a regime-fold result and an intent-fold result
EntriesOf(spine, intent) ==
  BuildSnapshotEntries(SnapshotSymbols(spine, intent), spine, intent)

\* the change summary of a retained change observation, rendered in full
ChangeSummary(change_entry) ==
  Str(change_entry.from.s \o LitArrow \o change_entry.to.s \o LitAt
      \o change_entry.timestamp.s)

\* C4 as stated: when the regime fold has ended, an entity whose accepted
\* records are all regime_change records is a key of the result with its
\* change sub-entry, and the entries main builds from this result hold one
\* entry for it, with the placeholder for regime and regime timestamp and the
\* change summary rendered.
C4_ChangeOnlyEntityKept ==
  pc = "spine_folded" =>
    \A s \in EntitySymbols :
      (SpineIdx("market.regime_change", s) /= {} /\ SpineIdx("market.regime", s) = {}) =>
        /\ s \in DOMAIN folded
        /\ "market.regime_change" \in DOMAIN folded[s]
        /\ folded[s]["market.regime_change"] = latest_change_by_symbol[s]
        /\ \E i \in DOMAIN EntriesOf(folded, EmptyMap) :
             LET e == EntriesOf(folded, EmptyMap)[i] IN
             /\ e.symbol = Str(s)
             /\ e.regime = Placeholder
             /\ e.regime_ts = Placeholder
             /\ e.change_value = ChangeSummary(latest_change_by_symbol[s])

(***************************************************************************)
(* C5                                                                      *)
(***************************************************************************)
Assembled == pc = "render" \/ (pc = "done" /\ rendered /= "")

\* C5: once main has built the entries, their symbols are exactly the keys of
\* the regime-fold result and of the intent-fold result, each once, in
\* ascending lexicographic order.
C5_UnionOfKeys ==
  Assembled =>
    /\ {entries[i].symbol.s : i \in DOMAIN entries}
         = DOMAIN spine_summary \cup DOMAIN intent_summary
    /\ Len(entries) = Cardinality(DOMAIN spine_summary \cup DOMAIN intent_summary)
    /\ \A i, j \in DOMAIN entries :
         i < j => StrLess(entries[i].symbol.s, entries[j].symbol.s)

\* C5 witness: a snapshot was rendered with an entity of the regime fold only,
\* one of the intent fold only and one of both.
C5_Witness_ThreeEntities ==
  /\ pc = "done"
  /\ rendered /= ""
  /\ DOMAIN spine_summary \ DOMAIN intent_summary /= {}
  /\ DOMAIN intent_summary \ DOMAIN spine_summary /= {}
  /\ DOMAIN intent_summary \cap DOMAIN spine_summary /= {}
  /\ Len(entries) = 3

(***************************************************************************)
(* C6                                                                      *)
(***************************************************************************)
PostureFields == {"direction", "size_pct", "risk_cap"}

\* C6 as stated: for every entity with a retained intent observation, the
\* entry built from the mappings of the intent fold holds the placeholder for
\* each of direction, size_pct and risk_cap that the intent body of the
\* retained record does not carry.
C6_MissingPostureIsPlaceholder ==
  pc = "intent" =>
    \A s \in DOMAIN latest_intent_by_symbol :
      LET first == FirstWithTs(IntentIdx(s), IntentTs, latest_ts_by_symbol[s].s)
          body == IntentRecord(intent_lines[first]).intent
          e == SnapshotEntry(s, spine_summary, latest_intent_by_symbol)
      IN \A f \in PostureFields : f \notin DOMAIN body => e[f] = Placeholder

(***************************************************************************)
(* C7                                                                      *)
(***************************************************************************)
\* C7: in the entries main has built, an entity of the intent-fold result
\* only has the placeholder as regime, regime timestamp and change summary,
\* and an entity of the regime-fold result only has the placeholder as
\* direction, size_pct and risk_cap.
C7_MissingSidePlaceholder ==
  Assembled =>
    \A i \in DOMAIN entries :
      LET e == entries[i]
          s == e.symbol.s
      IN
      /\ (s \in DOMAIN intent_summary /\ s \notin DOMAIN spine_summary) =>
           /\ e.regime = Placeholder
           /\ e.regime_ts = Placeholder
           /\ e.change_value = Placeholder
      /\ (s \in DOMAIN spine_summary /\ s \notin DOMAIN intent_summary) =>
           \A f \in PostureFields : e[f] = Placeholder

\* C7 witness: a snapshot was rendered with an entity of the intent fold only
\* and an entity of the regime fold only.
C7_Witness_OneSided ==
  /\ pc = "done"
  /\ rendered /= ""
  /\ \E i, j \in DOMAIN entries :
       /\ entries[i].symbol.s \in DOMAIN intent_summary \ DOMAIN spine_summary
       /\ entries[j].symbol.s \in DOMAIN spine_summary \ DOMAIN intent_summary

(***************************************************************************)
(* C8                                                                      *)
(***************************************************************************)
\* C8 as stated: whatever the lines of the two logs, no exception leaves
\* main, and a run with at least two arguments and an existing event log that
\* has ended has printed.
C8_NoExceptionLeavesMain ==
  /\ pc /= "crashed"
  /\ raised = ""
  /\ (pc = "done" /\ "spine_exists" \in env) => rendered /= ""

(***************************************************************************)
(* C9                                                                      *)
(***************************************************************************)
\* a line the text can be read of that is blank, fails JSON parsing, or holds
\* a record that fails a shape or validation check of its fold
SpineBadLine(line) ==
  line.kind /= "undecodable" /\ SpineRecord(line).kind \notin SpineKinds
IntentBadLine(line) ==
  line.kind /= "undecodable" /\ IntentRecord(line).kind /= "intent"

SpineGoodLine(line) == ~SpineBadLine(line)
IntentGoodLine(line) == ~IntentBadLine(line)

Decodable(lines) == \A i \in DOMAIN lines : lines[i].kind /= "undecodable"

\* C9 as stated: bad lines abort no fold, and after every processed line the
\* mappings of a fold (and the result of the regime fold when it has ended)
\* are those the fold gets from the same lines with the bad ones removed.
C9_BadLinesSkipped ==
  /\ (Decodable(spine_lines) /\ Decodable(intent_lines)) => pc /= "crashed"
  /\ (InSpineFold /\ Decodable(spine_lines)) =>
       LET st == SpineLoop([raised |-> "", latest_regime |-> EmptyMap,
                            latest_change |-> EmptyMap],
                           SelectSeq(spine_lines, SpineGoodLine))
       IN /\ latest_regime_by_symbol = st.latest_regime
          /\ latest_change_by_symbol = st.latest_change
  /\ (pc = "spine_folded" /\ Decodable(spine_lines)) =>
       Return(folded) = ParseEventSpine(SelectSeq(spine_lines, SpineGoodLine))
  /\ (InIntentFold /\ Decodable(intent_lines)) =>
       Return(latest_intent_by_symbol)
         = ParseRouterIntents(SelectSeq(intent_lines, IntentGoodLine))

(***************************************************************************)
(* C10                                                                     *)
(***************************************************************************)
EntrySymbols == {entries[i].symbol.s : i \in DOMAIN entries}

\* C10 as stated: once a fold has met OSError, at open or after any number of
\* lines, its result is the empty mapping, the run goes on to print the
\* snapshot, and the entries are those of the keys of the other fold's result.
C10_OSErrorEmptiesFoldAndRunContinues ==
  /\ ("spine_oserror" \in env /\ pc /= "spine_except") => spine_summary = EmptyMap
  /\ ("intent_oserror" \in env /\ pc /= "intent_except") => intent_summary = EmptyMap
  /\ (env \cap {"spine_oserror", "intent_oserror"} /= {}) =>
       /\ pc /= "crashed"
       /\ pc = "done" => rendered /= ""
  /\ (Assembled /\ "spine_oserror" \in env) => EntrySymbols = DOMAIN intent_summary
  /\ (Assembled /\ "intent_oserror" \in env) => EntrySymbols = DOMAIN spine_summary

(***************************************************************************)
(* C11                                                                     *)
(***************************************************************************)
\* main took one of the two no-op returns (lines 281 and 285)
NoOpPath == env \cap {"argv_short", "spine_missing"} /= {}

\* the renderer main calls for sys.argv[3]
RendererFor(mode) ==
  IF mode = "markdown" THEN "markdown" ELSE IF mode = "html" THEN "html" ELSE "terminal"

\* C11 as stated: a run that has ended printed nothing exactly when it had
\* fewer than two arguments or no event log; every other run ends, with
\* exactly one renderer, the one of its format argument, having printed.
C11_NoOutputIffNoOp ==
  /\ pc = "done" => (rendered = "" <=> NoOpPath)
  /\ NoOpPath => pc = "done"
  /\ (pc = "done" /\ ~NoOpPath) => rendered = RendererFor(output_mode)
  /\ ~NoOpPath => pc /= "crashed"

(***************************************************************************)
(* C12                                                                     *)
(***************************************************************************)
\* the intent-log lines read so far that hold a JSON object
IntentObjects == {i \in 1..Len(intent_lines) :
                    intent_lines[i].kind = "json" /\ IsDict(intent_lines[i].value)}

\* field k of the JSON object on line i, None when absent
RawField(i, k) == Get(intent_lines[i].value.d, k)

\* the body the claim names for line i: "payload" when it is a mapping,
\* otherwise "intent" when that is a mapping, otherwise none
BodyByPriority(i) ==
  IF IsDict(RawField(i, "payload")) THEN RawField(i, "payload")
  ELSE IF IsDict(RawField(i, "intent")) THEN RawField(i, "intent")
  ELSE None

\* the entity key the claim names for line i: the top-level "symbol" when it
\* is a string, otherwise the body's "symbol" when that is a string
KeyByPriority(i) ==
  IF IsStr(RawField(i, "symbol")) THEN RawField(i, "symbol")
  ELSE IF IsDict(BodyByPriority(i)) THEN Get(BodyByPriority(i).d, "symbol")
  ELSE None

\* the lines the claim lets through: valid timestamp, a body and a key
FoldedByPriority ==
  {i \in IntentObjects : /\ IsValidTs(RawField(i, "timestamp"))
                         /\ IsDict(BodyByPriority(i))
                         /\ IsStr(KeyByPriority(i))}

\* the four fields the fold keeps of a body
BodyFields == PostureFields \cup {"rationale"}
PostureOf(body) == [f \in BodyFields |-> Get(body.d, f)]

\* C12: while the intent log is read, the entities the fold holds are exactly
\* the keys, chosen top-level symbol first and body symbol second, of the
\* lines that have a valid timestamp, a body chosen "payload" first and
\* "intent" second, and a string key; and what is held for an entity is the
\* posture of the body so chosen on one of its lines, at that line's timestamp.
C12_BodyAndKeyPriority ==
  pc = "intent" =>
    /\ DOMAIN latest_intent_by_symbol = {KeyByPriority(i).s : i \in FoldedByPriority}
    /\ \A s \in DOMAIN latest_intent_by_symbol :
         \E i \in FoldedByPriority :
           /\ KeyByPriority(i).s = s
           /\ latest_ts_by_symbol[s] = RawField(i, "timestamp")
           /\ \A f \in BodyFields :
                latest_intent_by_symbol[s][f] = PostureOf(BodyByPriority(i))[f]

\* a record with no top-level symbol and a non-mapping "payload" was folded
\* from its "intent" body under the symbol nested there, next to a record
\* whose top-level symbol and "payload" won over its nested symbol and "intent"
C12_Witness_NestedIntentBody ==
  /\ pc = "intent"
  /\ \E i, j \in FoldedByPriority :
       /\ ~IsDict(RawField(i, "payload")) /\ ~IsStr(RawField(i, "symbol"))
       /\ KeyByPriority(i).s = SymAB
       /\ latest_intent_by_symbol[SymAB].direction = Short
       /\ IsDict(RawField(j, "payload")) /\ IsDict(RawField(j, "intent"))
       /\ IsStr(Get(RawField(j, "payload").d, "symbol"))
       /\ KeyByPriority(j).s = SymABC
       /\ latest_intent_by_symbol[SymABC].direction = None

(***************************************************************************)
(* C13                                                                     *)
(***************************************************************************)
\* C13: a call of _is_newer with a valid timestamp returns True when the
\* current best is None, True when the current best's valid timestamp is
\* strictly smaller as a string, and False when it is strictly greater.
C13_StrictlyLaterReplaces ==
  LET c == is_newer_call IN
  c.result \in {"True", "False"} =>
    /\ c.current = None => c.result = "True"
    /\ (c.current /= None /\ IsValidTs(Get(c.current, "timestamp"))) =>
         LET A == Get(c.current, "timestamp").s
             B == c.timestamp.s IN
         /\ StrLess(A, B) => c.result = "True"
         /\ StrLess(B, A) => c.result = "False"

\* a call with "T+00:00" against a current best of "TZ", which is strictly
\* greater as a string ("+" sorts before "Z"), returned False
C13_Witness_OlderRejected ==
  /\ is_newer_call.result = "False"
  /\ is_newer_call.timestamp = Str(<<84>> \o LitUtcOffset)
  /\ is_newer_call.current = [timestamp |-> Str(<<84>> \o LitZ), regime |-> Trend]

(***************************************************************************)
(* C15                                                                     *)
(***************************************************************************)
\* the event_type of the JSON object on a line, None for any other line
RawEventType(line) ==
  IF line.kind = "json" /\ IsDict(line.value) THEN Get(line.value.d, "event_type") ELSE None

\* the step reads one more line of the event log
SpineReads == pc = "spine" /\ Len(spine_lines') = Len(spine_lines) + 1

\* a regime line leaves the transitions alone, a transition line the regimes
RegimeAndChangeApart ==
  SpineReads =>
    LET event_type == RawEventType(spine_lines'[Len(spine_lines')]) IN
    /\ event_type = Str(MarketRegime) =>
         latest_change_by_symbol' = latest_change_by_symbol
    /\ event_type = Str(MarketRegimeChange) =>
         latest_regime_by_symbol' = latest_regime_by_symbol

\* C15: every step of the regime fold that reads a market.regime line leaves
\* the mapping of retained transitions unchanged, and every step that reads a
\* market.regime_change line leaves the mapping of retained regimes unchanged.
C15_IndependentBookkeeping == [][RegimeAndChangeApart]_vars

\* an entity holds a regime and, read after it and kept next to it, a
\* transition with a later timestamp than the regime's
C15_Witness_ChangeNewerThanRegime ==
  /\ pc = "spine"
  /\ Len(spine_lines) = 2
  /\ RawEventType(spine_lines[1]) = Str(MarketRegime)
  /\ RawEventType(spine_lines[2]) = Str(MarketRegimeChange)
  /\ SymABC \in DOMAIN latest_regime_by_symbol \cap DOMAIN latest_change_by_symbol
  /\ StrLess(latest_regime_by_symbol[SymABC].timestamp.s,
             latest_change_by_symbol[SymABC].timestamp.s)

\* the other order: a regime read after an entity's transition and kept next
\* to it, the transition being the older of the two
C15_Witness_ChangeOlderThanRegime ==
  /\ pc = "spine"
  /\ Len(spine_lines) = 2
  /\ RawEventType(spine_lines[1]) = Str(MarketRegimeChange)
  /\ RawEventType(spine_lines[2]) = Str(MarketRegime)
  /\ SymABC \in DOMAIN latest_regime_by_symbol \cap DOMAIN latest_change_by_symbol
  /\ StrLess(latest_change_by_symbol[SymABC].timestamp.s,
             latest_regime_by_symbol[SymABC].timestamp.s)

(***************************************************************************)
(* C16                                                                     *)
(***************************************************************************)
\* the event_type string of the observations of kind
EventTypeOf(kind) ==
  IF kind = "market.regime" THEN Str(MarketRegime) ELSE Str(MarketRegimeChange)

\* the payload of the JSON object on a line, as a mapping
RawPayload(line) == Get(line.value.d, "payload").d

\* entity symbol's entry in the mapping latest was set or replaced by the step
Replaced(latest, latest_after, symbol) ==
  /\ symbol \in DOMAIN latest_after
  /\ symbol \notin DOMAIN latest \/ latest[symbol] /= latest_after[symbol]

\* the entry a step stores has "confidence" exactly when the payload of the
\* line just read has it, and then with the payload's value
ConfidenceFromReplacingPayload ==
  SpineReads =>
    LET line == spine_lines'[Len(spine_lines')] IN
    \A symbol \in EntitySymbols :
      /\ Replaced(latest_regime_by_symbol, latest_regime_by_symbol', symbol) =>
           LET entry == latest_regime_by_symbol'[symbol] IN
           /\ "confidence" \in DOMAIN entry <=> "confidence" \in DOMAIN RawPayload(line)
           /\ "confidence" \in DOMAIN entry => entry.confidence = RawPayload(line).confidence
      /\ Replaced(latest_change_by_symbol, latest_change_by_symbol', symbol) =>
           LET entry == latest_change_by_symbol'[symbol] IN
           /\ "confidence" \in DOMAIN entry <=> "confidence" \in DOMAIN RawPayload(line)
           /\ "confidence" \in DOMAIN entry => entry.confidence = RawPayload(line).confidence

\* C16: whenever a step of the regime fold stores an observation, first or
\* replacing, the stored entry has a confidence exactly when the payload of
\* the record just read contains the key, with that payload's value; nothing
\* of the replaced entry's confidence remains.
C16_ConfidenceNotCarriedOver == [][ConfidenceFromReplacingPayload]_vars

\* an observation with a confidence was replaced by a later one whose payload
\* has none, and the retained entry has none
C16_Witness_ConfidenceDropped ==
  /\ pc = "spine"
  /\ Len(spine_lines) = 2
  /\ RawEventType(spine_lines[1]) = RawEventType(spine_lines[2])
  /\ \E kind \in SpineKinds :
       /\ RawEventType(spine_lines[1]) = EventTypeOf(kind)
       /\ SymABC \in DOMAIN SpineLatest(kind)
       /\ "confidence" \in DOMAIN RawPayload(spine_lines[1])
       /\ "confidence" \notin DOMAIN RawPayload(spine_lines[2])
       /\ SpineLatest(kind)[SymABC].timestamp = Get(spine_lines[2].value.d, "timestamp")
       /\ StrLess(Get(spine_lines[1].value.d, "timestamp").s,
                  Get(spine_lines[2].value.d, "timestamp").s)
       /\ "confidence" \notin DOMAIN SpineLatest(kind)[SymABC]

(***************************************************************************)
(* C17                                                                     *)
(***************************************************************************)
\* the change sub-entry of symbol in a regime-fold result, None when absent
ChangeOf(spine, symbol) ==
  IF symbol \in DOMAIN spine THEN Get(spine[symbol], "market.regime_change") ELSE None

\* a regime-fold result whose change sub-entry has a timestamp but no "to"
HalfChange ==
  SymABC :> ("market.regime_change" :> [timestamp |-> Ts0, from |-> Trend])

\* C17: the fold retains only transitions whose from and to are strings and
\* whose timestamp is valid; once the entries are built, the change summary of
\* an entity is "{from} -> {to} @ {timestamp}" of its change sub-entry in the
\* regime-fold result when it has one, and the placeholder when it has none;
\* and the assembler gives the placeholder for a sub-entry that has a
\* timestamp but lacks "to".
C17_ChangeSummaryInFull ==
  /\ InSpineFold =>
       \A s \in DOMAIN latest_change_by_symbol :
         LET c == latest_change_by_symbol[s] IN
         IsStr(c.from) /\ IsStr(c.to) /\ IsValidTs(c.timestamp)
  /\ Assembled =>
       \A i \in 1..Len(entries) :
         LET c == ChangeOf(spine_summary, entries[i].symbol.s) IN
         entries[i].change_value = IF c /= None THEN ChangeSummary(c) ELSE Placeholder
  /\ SnapshotEntry(SymABC, HalfChange, EmptyMap).change_value = Placeholder

\* the entries hold one entity with its transition rendered in full and one
\* entity with the placeholder, the regime-fold result having no transition
\* for it
C17_Witness_SummaryAndPlaceholder ==
  /\ Assembled
  /\ \E i, j \in 1..Len(entries) :
       /\ ChangeOf(spine_summary, entries[i].symbol.s) /= None
       /\ entries[i].change_value =
            Str(Trend.s \o LitArrow \o Chop.s \o LitAt \o Ts0.s)
       /\ ChangeOf(spine_summary, entries[j].symbol.s) = None
       /\ entries[j].change_value = Placeholder

(***************************************************************************)
(* C18                                                                     *)
(***************************************************************************)
\* the step reads one more line of the intent log
IntentReads == pc = "intent" /\ Len(intent_lines') = Len(intent_lines) + 1

\* the step stores, for one entity and in both mappings, the timestamp and the
\* body of the JSON object on line, which is later than the stored timestamp
StoresBoth(line) ==
  /\ line.kind = "json" /\ IsDict(line.value)
  /\ LET timestamp == Get(line.value.d, "timestamp")
         payload == Get(line.value.d, "payload")
         body == IF IsDict(payload) THEN payload ELSE Get(line.value.d, "intent")
     IN
     /\ IsValidTs(timestamp) /\ IsDict(body)
     /\ \E s \in EntitySymbols :
          /\ s \in DOMAIN latest_ts_by_symbol =>
               StrLess(latest_ts_by_symbol[s].s, timestamp.s)
          /\ latest_ts_by_symbol' = Put(latest_ts_by_symbol, s, timestamp)
          /\ latest_intent_by_symbol' = Put(latest_intent_by_symbol, s, PostureOf(body))

\* a step of the intent fold changes both mappings, for the line read, or neither
BothOrNeither ==
  IntentReads =>
    \/ /\ latest_ts_by_symbol' = latest_ts_by_symbol
       /\ latest_intent_by_symbol' = latest_intent_by_symbol
    \/ StoresBoth(intent_lines'[Len(intent_lines')])

\* the two mappings of the intent fold have the same keys
SameKeys == DOMAIN latest_ts_by_symbol = DOMAIN latest_intent_by_symbol

\* C18: the timestamp mapping and the body mapping of the intent fold have
\* the same keys in every state, and every step that reads a line either
\* leaves both unchanged or stores, for one entity, the timestamp of the
\* record read in the one and the body of that same record in the other.
C18_TimestampAndBodyInStep == []SameKeys /\ [][BothOrNeither]_vars

\* an entity's first record was replaced by a later one: the stored timestamp
\* and the stored body are both the second record's
C18_Witness_BothReplaced ==
  /\ pc = "intent"
  /\ Len(intent_lines) = 2
  /\ FoldedByPriority = {1, 2}
  /\ KeyByPriority(1) = KeyByPriority(2)
  /\ StrLess(RawField(1, "timestamp").s, RawField(2, "timestamp").s)
  /\ PostureOf(BodyByPriority(1)) /= PostureOf(BodyByPriority(2))
  /\ latest_ts_by_symbol[KeyByPriority(2).s] = RawField(2, "timestamp")
  /\ latest_intent_by_symbol[KeyByPriority(2).s] = PostureOf(BodyByPriority(2))

(***************************************************************************)
(* C19                                                                     *)
(***************************************************************************)
\* the event-log lines read so far whose JSON object has the event_type of kind
SpineOfType(kind) ==
  {i \in 1..Len(spine_lines) : RawEventType(spine_lines[i]) = EventTypeOf(kind)}

\* C19: while the intent log is read, every line with a valid timestamp, a
\* body and a key has its entity in the fold, whether its event_type is
\* absent, a string or anything else; and every observation the regime fold
\* holds has the symbol and timestamp of a line read whose event_type is the
\* one of the two recognized types that the observation's mapping is for.
C19_OnlyRegimeFoldFilters ==
  /\ pc = "intent" =>
       \A i \in FoldedByPriority : KeyByPriority(i).s \in DOMAIN latest_intent_by_symbol
  /\ InSpineFold =>
       \A kind \in SpineKinds : \A s \in DOMAIN SpineLatest(kind) :
         \E i \in SpineOfType(kind) :
           /\ IsDict(Get(spine_lines[i].value.d, "payload"))
           /\ Get(RawPayload(spine_lines[i]), "symbol") = Str(s)
           /\ Get(spine_lines[i].value.d, "timestamp") = SpineLatest(kind)[s].timestamp

\* the intent fold holds two entities, the one from a record whose event_type
\* is a list, the other from a record whose event_type is "market.regime"
C19_Witness_IntentWithEventType ==
  /\ pc = "intent"
  /\ Len(intent_lines) = 2
  /\ FoldedByPriority = {1, 2}
  /\ Unhashable(RawField(1, "event_type"))
  /\ RawField(2, "event_type") = Str(MarketRegime)
  /\ DOMAIN latest_intent_by_symbol = {KeyByPriority(1).s, KeyByPriority(2).s}
  /\ KeyByPriority(1) /= KeyByPriority(2)

====
